---- MODULE Spec2Model ----
(***************************************************************************)
(* Passport KYC service: the CreateIdentity handler, the issuer client and *)
(* the claims table.                                                       *)
(*                                                                         *)
(* A request is handled by one process: the checks that precede the        *)
(* issuance transaction run inline in Start (they have no suspension       *)
(* point), the transaction proceeds one database or issuer call at a time. *)
(* Cryptographic primitives are abstracted by what they accept: a request  *)
(* says under which hash its digest attribute matches, under which scheme  *)
(* its signature verifies, under which verification key its proof          *)
(* verifies.                                                               *)
(***************************************************************************)
EXTENDS Integers, Sequences, FiniteSets, TLC

VARIABLES claims, creds, pc, req, loc, tx, out, nreq, lastIssued, calc

vars == <<claims, creds, pc, req, loc, tx, out, nreq, lastIssued, calc>>

(***************************************************************************)
(* Bounds of the model.                                                    *)
(***************************************************************************)
MaxReqs == 3
MaxPipeReqs == 2
MaxConcReqs == 3
MaxTokens == 3
MaxDg2Len == 65
MaxDg1Len == 3

Procs == {1, 2}
SeqProcs == {1}
Fingerprints == {"F1", "F2"}
UserIds == {"u1", "u2"}

(***************************************************************************)
(* Strings are sequences of one-character strings, so that ToUpper and     *)
(* Contains are computed as the Go library computes them.                  *)
(***************************************************************************)
LowerToUpper ==
    ("a" :> "A") @@ ("b" :> "B") @@ ("c" :> "C") @@ ("d" :> "D") @@
    ("e" :> "E") @@ ("f" :> "F") @@ ("g" :> "G") @@ ("h" :> "H") @@
    ("i" :> "I") @@ ("j" :> "J") @@ ("k" :> "K") @@ ("l" :> "L") @@
    ("m" :> "M") @@ ("n" :> "N") @@ ("o" :> "O") @@ ("p" :> "P") @@
    ("q" :> "Q") @@ ("r" :> "R") @@ ("s" :> "S") @@ ("t" :> "T") @@
    ("u" :> "U") @@ ("v" :> "V") @@ ("w" :> "W") @@ ("x" :> "X") @@
    ("y" :> "Y") @@ ("z" :> "Z")

\* Faulty variant: the string is compared as it was sent.
ToUpperSkipped(s) == s

ToUpper(s) ==
    [i \in 1..Len(s) |->
        IF s[i] \in DOMAIN LowerToUpper THEN LowerToUpper[s[i]] ELSE s[i]]

Contains(s, t) ==
    \E i \in 1..(Len(s) + 1) :
        /\ i + Len(t) - 1 <= Len(s)
        /\ SubSeq(s, i, i + Len(t) - 1) = t

SHA1 == "sha1"
SHA256 == "sha256"
SHA256withRSA == "SHA256withRSA"
SHA1withECDSA == "SHA1withECDSA"
SHA256withECDSA == "SHA256withECDSA"
NoAlgorithm == ""

\* The spelling of the keys of algorithmsListMap and of the PSS marker.
TokenChars ==
    [SHA1 |-> <<"S", "H", "A", "1">>,
     SHA256 |-> <<"S", "H", "A", "2", "5", "6">>,
     RSA |-> <<"R", "S", "A">>,
     ECDSA |-> <<"E", "C", "D", "S", "A">>,
     PSS |-> <<"P", "S", "S">>]

\* Faulty variant: the table has a row for SHA1 with RSA.
algorithmsListMapSha1Rsa ==
    [SHA1 |-> [RSA |-> "SHA1withRSA", ECDSA |-> SHA1withECDSA],
     SHA256 |-> [RSA |-> SHA256withRSA, ECDSA |-> SHA256withECDSA]]

algorithmsListMap ==
    [SHA1 |-> [ECDSA |-> SHA1withECDSA],
     SHA256 |-> [RSA |-> SHA256withRSA, ECDSA |-> SHA256withECDSA]]

\* The orders in which a range over a Go map with key set S may visit it.
Orders(S) ==
    {o \in [1..Cardinality(S) -> S] : \A i, j \in DOMAIN o : i # j => o[i] # o[j]}

RECURSIVE InnerLoop(_, _, _)
InnerLoop(up, signatureAlgorithms, order) ==
    IF order = <<>> THEN NoAlgorithm
    ELSE IF Contains(up, TokenChars[Head(order)])
         THEN signatureAlgorithms[Head(order)]
         ELSE InnerLoop(up, signatureAlgorithms, Tail(order))

RECURSIVE OuterLoop(_, _, _)
OuterLoop(up, order, inner) ==
    IF order = <<>> THEN NoAlgorithm
    ELSE LET hashFunc == Head(order)
             found == IF Contains(up, TokenChars[hashFunc])
                      THEN InnerLoop(up, algorithmsListMap[hashFunc], inner[hashFunc])
                      ELSE NoAlgorithm
         IN  IF found # NoAlgorithm THEN found
             ELSE OuterLoop(up, Tail(order), inner)

\* The tags signatureAlgorithm may return for passedAlgorithm, one for each
\* iteration order of the outer and the inner maps.
signatureAlgorithm(passedAlgorithm) ==
    IF Contains(ToUpper(passedAlgorithm), TokenChars.PSS)
    THEN {NoAlgorithm}
    ELSE {OuterLoop(ToUpper(passedAlgorithm), o, inner) :
            o \in Orders(DOMAIN algorithmsListMap),
            inner \in [SHA1 : Orders(DOMAIN algorithmsListMap.SHA1),
                       SHA256 : Orders(DOMAIN algorithmsListMap.SHA256)]}

(***************************************************************************)
(* Algorithm strings a client may send.                                    *)
(***************************************************************************)
AlgSha256Rsa ==
    <<"s", "h", "a", "2", "5", "6", "W", "i", "t", "h", "R", "S", "A",
      "E", "n", "c", "r", "y", "p", "t", "i", "o", "n">>
AlgEcdsaSha1 ==
    <<"e", "c", "d", "s", "a", "-", "w", "i", "t", "h", "-", "S", "H", "A", "1">>
AlgEcdsaSha256 ==
    <<"e", "c", "d", "s", "a", "-", "w", "i", "t", "h", "-", "S", "H", "A", "2", "5", "6">>
AlgPss == <<"r", "s", "a", "s", "s", "a", "-", "p", "s", "s">>
AlgSha1Rsa ==
    <<"s", "h", "a", "1", "W", "i", "t", "h", "R", "S", "A">>
AlgBoth ==
    <<"S", "H", "A", "1", "+", "S", "H", "A", "2", "5", "6", "-", "E", "C", "D", "S", "A">>

Family(tag) == IF tag = SHA1withECDSA THEN SHA1 ELSE SHA256
KeyKindOf(tag) == IF tag = SHA256withRSA THEN "rsa" ELSE "ecdsa"

\* A well-formed passport presentation under `tag`, sent with algorithm
\* string a, for document f by user u.
Base(a, tag, f, u) ==
    [json |-> "ok", algorithm |-> a, saHex |-> "ok", ecHex |-> "ok",
     saShape |-> "ok", digestOf |-> Family(tag), pem |-> "ok", sigHex |-> "ok",
     keyKind |-> KeyKindOf(tag), sigScheme |-> tag, zkKey |-> Family(tag),
     ecAsn1 |-> "ok", pubSignals |-> "ok", chain |-> "ok", expiration |-> "ok",
     issuingAuthority |-> "ok", vault |-> "ok", poseidon |-> "ok",
     dg2 |-> "split", fingerprint |-> f, user_id |-> u]

Faults ==
    {<<"json", "bad">>, <<"saHex", "bad">>, <<"ecHex", "bad">>,
     <<"saShape", "noSet">>, <<"saShape", "empty">>, <<"saShape", "noDigest">>,
     <<"digestOf", SHA1>>, <<"digestOf", SHA256>>, <<"digestOf", "none">>,
     <<"pem", "bad">>, <<"sigHex", "bad">>,
     <<"keyKind", "rsa">>, <<"keyKind", "ecdsa">>, <<"keyKind", "other">>,
     <<"sigScheme", "none">>, <<"sigScheme", SHA256withRSA>>,
     <<"sigScheme", SHA256withECDSA>>,
     <<"zkKey", SHA1>>, <<"zkKey", SHA256>>, <<"zkKey", "none">>,
     <<"ecAsn1", "bad">>,
     <<"pubSignals", "dg1">>, <<"pubSignals", "date">>, <<"pubSignals", "age">>,
     <<"chain", "bad">>, <<"expiration", "bad">>, <<"issuingAuthority", "bad">>,
     <<"vault", "bad">>, <<"poseidon", "bad">>, <<"dg2", "overflow">>,
     <<"dg2", "short">>}

With(r, f) == [r EXCEPT ![f[1]] = f[2]]

BaseRequests(fs, us) ==
    {Base(AlgSha256Rsa, SHA256withRSA, f, u) : f \in fs, u \in us}
    \cup {Base(AlgEcdsaSha1, SHA1withECDSA, f, u) : f \in fs, u \in us}
    \cup {Base(AlgEcdsaSha256, SHA256withECDSA, f, u) : f \in fs, u \in us}
    \cup {Base(AlgBoth, SHA256withECDSA, f, u) : f \in fs, u \in us}
    \cup {Base(AlgPss, SHA256withRSA, f, u) : f \in fs, u \in us}
    \cup {Base(AlgSha1Rsa, SHA256withRSA, f, u) : f \in fs, u \in us}

\* Requests of the sequential specification: every well-formed request and
\* every request with one defect.
CoreRequests ==
    BaseRequests(Fingerprints, UserIds)
    \cup {With(Base(AlgSha256Rsa, SHA256withRSA, f, "u1"), d) :
            f \in Fingerprints, d \in Faults}

\* Requests of the pipeline specification: up to two defects at once.
PipeRequests ==
    {With(With(b, d), e) : b \in BaseRequests({"F1"}, {"u1"}), d \in Faults, e \in Faults}

\* Requests of the concurrent specification.
ConcRequests ==
    {Base(AlgSha256Rsa, SHA256withRSA, f, "u1") : f \in Fingerprints}

(***************************************************************************)
(* The checks of CreateIdentity that precede the transaction.  Each helper *)
(* returns "ok", "err" or, where the Go code panics, "panic".              *)
(***************************************************************************)
BadRequest == 400
InternalError == 500
StatusOKHttp == 200

validateSignedAttributes(r, algorithm) ==
    IF r.saShape = "noSet" THEN "err"
    ELSE IF r.saShape = "empty" THEN "err"
    ELSE IF algorithm \notin {SHA1withECDSA, SHA256withRSA, SHA256withECDSA} THEN "err"
    ELSE IF r.saShape = "noDigest" THEN "err"
    ELSE IF r.digestOf # Family(algorithm) THEN "err"
    ELSE "ok"

parseCertificate(r) == IF r.pem = "ok" THEN "ok" ELSE "err"

\* cert.PublicKey.(*rsa.PublicKey) and cert.PublicKey.(*ecdsa.PublicKey) are
\* single-value type assertions: they panic when the key is of another kind.
verifySignature(r, algo) ==
    IF r.sigHex # "ok" THEN "err"
    ELSE IF algo = SHA256withRSA
         THEN IF r.keyKind # "rsa" THEN "panic"
              ELSE IF r.sigScheme = SHA256withRSA THEN "ok" ELSE "err"
    ELSE IF algo = SHA1withECDSA
         THEN IF r.keyKind # "ecdsa" THEN "panic"
              ELSE IF r.sigScheme = SHA1withECDSA THEN "ok" ELSE "err"
    ELSE IF algo = SHA256withECDSA
         THEN IF r.keyKind # "ecdsa" THEN "panic"
              ELSE IF r.sigScheme = SHA256withECDSA THEN "ok" ELSE "err"
    ELSE "err"

\* Faulty variant: SHA256withECDSA is verified against the SHA1 key.
VerificationKeyMixed(algorithm) ==
    IF algorithm \in {SHA1withECDSA, SHA256withECDSA} THEN SHA1
    ELSE IF algorithm = SHA256withRSA THEN SHA256
    ELSE ""

\* The verification key the switch of CreateIdentity selects, "" in the
\* default branch.
VerificationKeyFor(algorithm) ==
    IF algorithm = SHA1withECDSA THEN SHA1
    ELSE IF algorithm \in {SHA256withRSA, SHA256withECDSA} THEN SHA256
    ELSE ""

VerifyGroth16(r, algorithm) ==
    IF VerificationKeyFor(algorithm) = "" THEN "err"
    ELSE IF r.zkKey = VerificationKeyFor(algorithm) THEN "ok" ELSE "err"

validatePubSignals(r) == IF r.pubSignals = "ok" THEN "ok" ELSE "err"

\* Faulty variant: the result of the chain validation is ignored.
validateCertIgnored(r) == "ok"

validateCert(r) == IF r.chain = "ok" THEN "ok" ELSE "err"

getExpirationTimeFromPubSignals(r) == IF r.expiration = "ok" THEN "ok" ELSE "err"

signedAttributesPoseidonHash(r) == IF r.poseidon = "ok" THEN "ok" ELSE "err"

\* Faulty variant: the certificate chain is validated before the proof.
CheckOrderChainFirst ==
    <<"decode", "algorithm", "hexSignedAttributes", "hexEncapsulatedContent",
      "validateSignedAttributes", "parseCertificate", "verifySignature",
      "validateCert", "verifyGroth16", "unmarshalEncapsulated",
      "validatePubSignals", "expiration", "issuingAuthority", "vault",
      "fingerprintHash">>

\* The checks of CreateIdentity in the order the handler runs them.
CheckOrder ==
    <<"decode", "algorithm", "hexSignedAttributes", "hexEncapsulatedContent",
      "validateSignedAttributes", "parseCertificate", "verifySignature",
      "verifyGroth16", "unmarshalEncapsulated", "validatePubSignals",
      "validateCert", "expiration", "issuingAuthority", "vault",
      "fingerprintHash">>

\* The outcome of one check of the handler.
Check(stage, r, algorithm) ==
    CASE stage = "decode" -> IF r.json = "ok" THEN "ok" ELSE "err"
      [] stage = "algorithm" -> IF algorithm # NoAlgorithm THEN "ok" ELSE "err"
      [] stage = "hexSignedAttributes" -> IF r.saHex = "ok" THEN "ok" ELSE "err"
      [] stage = "hexEncapsulatedContent" -> IF r.ecHex = "ok" THEN "ok" ELSE "err"
      [] stage = "validateSignedAttributes" -> validateSignedAttributes(r, algorithm)
      [] stage = "parseCertificate" -> parseCertificate(r)
      [] stage = "verifySignature" -> verifySignature(r, algorithm)
      [] stage = "verifyGroth16" -> VerifyGroth16(r, algorithm)
      [] stage = "unmarshalEncapsulated" -> IF r.ecAsn1 = "ok" THEN "ok" ELSE "err"
      [] stage = "validatePubSignals" -> validatePubSignals(r)
      [] stage = "validateCert" -> validateCert(r)
      [] stage = "expiration" -> getExpirationTimeFromPubSignals(r)
      [] stage = "issuingAuthority" -> IF r.issuingAuthority = "ok" THEN "ok" ELSE "err"
      [] stage = "vault" -> IF r.vault = "ok" THEN "ok" ELSE "err"
      [] stage = "fingerprintHash" -> signedAttributesPoseidonHash(r)

\* The problem the handler renders when the check fails.
RenderedStatus(stage) ==
    IF stage \in {"decode", "algorithm", "hexSignedAttributes",
                  "hexEncapsulatedContent", "verifyGroth16",
                  "validatePubSignals", "validateCert", "expiration"}
    THEN BadRequest
    ELSE InternalError

\* Run the checks in order; return at the first that fails.  A panic
\* unwinds the handler before it renders anything.
RECURSIVE RunChecks(_, _, _)
RunChecks(order, r, algorithm) ==
    IF order = <<>> THEN [stage |-> "tx", status |-> 0, rendered |-> 0]
    ELSE LET res == Check(Head(order), r, algorithm)
         IN  IF res = "ok" THEN RunChecks(Tail(order), r, algorithm)
             ELSE IF res = "panic"
             THEN [stage |-> Head(order), status |-> 0, rendered |-> 0]
             ELSE [stage |-> Head(order), status |-> RenderedStatus(Head(order)),
                   rendered |-> 1]

\* CreateIdentity up to the transaction: the first check that fails, with the
\* status rendered for it; stage "tx" when every check passes.
PreTx(r, algorithm) == RunChecks(CheckOrder, r, algorithm)

(***************************************************************************)
(* State.                                                                  *)
(*   claims      the committed rows of table claims                        *)
(*   creds       the credentials the external issuer has minted            *)
(*   pc, req     each handler's position and the request it handles        *)
(*   loc         the handler's local variables (algorithm, userId,         *)
(*               claimID, the rows still to revoke) and, as history, the   *)
(*               issuer calls it made and the table it started from        *)
(*   tx          the handler's open transaction                            *)
(*   out         what the handler rendered                                 *)
(*   nreq        requests received so far                                  *)
(*   lastIssued  history: per fingerprint, the credential of the last      *)
(*               request that succeeded (0: none)                          *)
(*   calc        the input and the result of a helper function evaluated   *)
(*               on its own, in the specifications of the helpers          *)
(***************************************************************************)
EmptyID == [form |-> "bad", n |-> 0]

NoReq == Base(<<>>, "", "", "")

\* The value of a Go pointer that is nil.
Nil == "nil"

\* The body of POST /claims as IssueVotingClaim builds it from its
\* parameters: the literal sets the schema, the type, the subject and the
\* two proof flags; field Expiration is not among them and keeps its zero
\* value, nil, which omitempty leaves out of the JSON.
CredentialRequest(expiration, userId, documentHash) ==
    [CredentialSubject |-> [UserID |-> userId, Features |-> documentHash],
     Expiration |-> Nil, MtProof |-> TRUE, SignatureProof |-> TRUE]

NoCredentialRequest ==
    [CredentialSubject |-> [UserID |-> "", Features |-> ""],
     Expiration |-> "", MtProof |-> FALSE, SignatureProof |-> FALSE]

\* identityExpiration: the time getExpirationTimeFromPubSignals decoded from
\* public signals [6..8] of request r.
IdentityExpiration(r) == IF r.expiration = "ok" THEN "midnight" ELSE Nil

NoLoc ==
    [algorithm |-> NoAlgorithm, claimsToRevoke |-> <<>>, userId |-> "",
     claimID |-> EmptyID, createStatus |-> -1, createReq |-> NoCredentialRequest,
     txLog |-> <<>>, reported |-> {}, before |-> {}, prior |-> 0, no |-> 0]

NoTx == [active |-> FALSE, snap |-> {}, del |-> {}, ins |-> {}, lock |-> {}]

NoOut ==
    [rendered |-> 0, status |-> 0, stage |-> "", claim_id |-> EmptyID, user_id |-> ""]

NoCalc == [in |-> <<>>, done |-> FALSE, out |-> <<>>]

\* The service with an empty table and no request in progress.
Quiet ==
    /\ claims = {}
    /\ creds = {}
    /\ pc = [p \in Procs |-> "idle"]
    /\ req = [p \in Procs |-> NoReq]
    /\ loc = [p \in Procs |-> NoLoc]
    /\ tx = [p \in Procs |-> NoTx]
    /\ out = [p \in Procs |-> NoOut]
    /\ nreq = 0
    /\ lastIssued = [f \in Fingerprints |-> 0]

Init == Quiet /\ calc = NoCalc

\* The HTTP statuses an issuer call may end with; TransportError stands for
\* a call that returned err # nil.
TransportError == 0
RpcStatuses == {TransportError, 200, 298, 299, 500}

\* Faulty variant: the status check of IssueVotingClaim is off by one.
IssueStatusOKAbove299(status) == status # 0 /\ ~(status > 299)

IssueStatusOK(status) == status # TransportError /\ ~(status >= 299)
GetStatusOK(status) == status # TransportError /\ ~(status >= 299)
RevokeStatusOK(status) == status # TransportError /\ ~(status >= 299)

\* The issuer mints a credential exactly when it answers the create call
\* with a success status below 299.
IssuerMints(status) == status >= 200 /\ status < 299

\* uuid.Parse: the canonical and the urn:uuid: forms denote the same UUID,
\* anything else is an error (0).
ParseUUID(s) == IF s.form \in {"std", "urn"} THEN s.n ELSE 0
\* Faulty variant: the error of uuid.Parse is dropped.
ParseUUIDErrDropped(s) == TRUE

ParseUUIDOK(s) == s.form \in {"std", "urn"}

\* The rows a transaction sees: its snapshot with its own changes applied.
View(t) == {row \in t.snap : row.id \notin t.del} \cup t.ins

\* The orders in which Select may return the rows of S.
RowOrders(S) == Orders(S)

\* The closure returned an error at `stage`: the error was rendered inside
\* the closure, Transaction rolls back, the handler returns.
Abort(p, stage, newLoc) ==
    /\ out' = [out EXCEPT ![p] = [NoOut EXCEPT !.rendered = 1,
                                               !.status = InternalError,
                                               !.stage = stage]]
    /\ tx' = [tx EXCEPT ![p] = NoTx]
    /\ loc' = [loc EXCEPT ![p] = newLoc]
    /\ pc' = [pc EXCEPT ![p] = "done"]

\* CreateIdentity, lines 57-178: decode the request, run every check that
\* precedes the transaction.
Start(p, r, max) ==
    /\ pc[p] = "idle"
    /\ nreq < max
    /\ nreq' = nreq + 1
    /\ req' = [req EXCEPT ![p] = r]
    /\ \E algorithm \in signatureAlgorithm(r.algorithm) :
         LET res == PreTx(r, algorithm)
             l == [NoLoc EXCEPT !.algorithm = algorithm, !.before = claims,
                                !.prior = lastIssued[r.fingerprint],
                                !.no = nreq + 1]
         IN  /\ loc' = [loc EXCEPT ![p] = l]
             /\ IF res.stage = "tx"
                THEN /\ pc' = [pc EXCEPT ![p] = "select"]
                     /\ out' = [out EXCEPT ![p] = NoOut]
                ELSE /\ pc' = [pc EXCEPT ![p] = "done"]
                     /\ out' = [out EXCEPT ![p] =
                            [NoOut EXCEPT !.rendered = res.rendered,
                                          !.status = res.status,
                                          !.stage = res.stage]]
    /\ UNCHANGED <<claims, creds, tx, lastIssued, calc>>

\* Faulty variant: the filter compares another column and matches nothing.
FilterByWrongColumn(table, hash) == {row \in table : row.user_id = hash}

\* Claim().ResetFilter().FilterBy("document_hash", hash): the rows selected.
FilterByDocumentHash(table, hash) == {row \in table : row.document_hash = hash}

\* Transaction begins; SELECT ... WHERE document_hash = F FOR UPDATE.  The
\* statement waits while another transaction holds the lock of a matching row.
Select(p) ==
    /\ pc[p] = "select"
    /\ LET rows == FilterByDocumentHash(claims, req[p].fingerprint)
           ids == {row.id : row \in rows}
       IN  /\ \A q \in Procs \ {p} : tx[q].lock \cap ids = {}
           /\ \E dbOK \in BOOLEAN, order \in RowOrders(rows) :
                IF dbOK
                THEN /\ tx' = [tx EXCEPT ![p] =
                            [active |-> TRUE, snap |-> claims, del |-> {},
                             ins |-> {}, lock |-> ids]]
                     /\ loc' = [loc EXCEPT ![p].claimsToRevoke = order]
                     /\ pc' = [pc EXCEPT ![p] =
                            IF order = <<>> THEN "issue" ELSE "revoke"]
                     /\ UNCHANGED out
                ELSE Abort(p, "select", loc[p])
    /\ UNCHANGED <<claims, creds, req, nreq, lastIssued, calc>>

\* Faulty variant: the credential is revoked whatever GetCredential reported.
ShouldRevokeAlways(cred) == TRUE

\* revokeOutdatedClaim, `if !cred.Revoked`.
ShouldRevoke(cred) == ~cred.revoked

\* One iteration of the loop over claimsToRevoke: userId is set, then
\* revokeOutdatedClaim gets the credential, revokes it unless the issuer
\* reports it revoked, and deletes the row.
RevokeOutdated(p) ==
    /\ pc[p] = "revoke"
    /\ \E getStatus \in RpcStatuses, revokeStatus \in RpcStatuses, dbOK \in BOOLEAN :
         LET row == Head(loc[p].claimsToRevoke)
             found == {c \in creds : c.id = row.id}
             getOK == GetStatusOK(getStatus) /\ found # {}
             cred == CHOOSE c \in found : TRUE
             revoking == getOK /\ ShouldRevoke(cred)
             revokeOK == RevokeStatusOK(revokeStatus)
             log1 == Append(loc[p].txLog, [op |-> "get", id |-> row.id, ok |-> getOK])
             log2 == IF revoking
                     THEN Append(log1, [op |-> "revoke", id |-> row.id, ok |-> revokeOK])
                     ELSE log1
             l1 == [loc[p] EXCEPT
                      !.userId = req[p].user_id, !.txLog = log1,
                      !.reported = IF getOK
                                   THEN @ \cup {[id |-> row.id, revoked |-> cred.revoked]}
                                   ELSE @]
             l2 == [l1 EXCEPT !.txLog = log2]
         IN  IF ~getOK
             THEN Abort(p, "getCredential", l1) /\ UNCHANGED creds
             ELSE /\ creds' = IF revoking
                              THEN (creds \ {cred}) \cup
                                   {[cred EXCEPT !.revoked = @ \/ revokeOK,
                                                 !.resent = @ \/ cred.revoked]}
                              ELSE creds
                  /\ IF revoking /\ ~revokeOK
                     THEN Abort(p, "revokeClaim", l2)
                     ELSE IF ~dbOK
                     THEN Abort(p, "deleteByID", l2)
                     ELSE /\ tx' = [tx EXCEPT ![p].del = @ \cup {row.id}]
                          /\ loc' = [loc EXCEPT ![p] =
                                 [l2 EXCEPT !.claimsToRevoke = Tail(@)]]
                          /\ pc' = [pc EXCEPT ![p] =
                                 IF Tail(loc[p].claimsToRevoke) = <<>>
                                 THEN "issue" ELSE "revoke"]
                          /\ UNCHANGED out
    /\ UNCHANGED <<claims, req, nreq, lastIssued, calc>>

\* The identifier the issuer mints next.
NextCredID == Cardinality(creds) + 1

\* Issuer.IssueVotingClaim: the nullifier and credential hashes, then
\* POST /claims.  The body of a success answer carries the new credential's
\* id in some textual form; an answer that minted nothing carries no id of a
\* credential (n = 0).
IssueVotingClaim(p) ==
    /\ pc[p] = "issue"
    /\ \E status \in RpcStatuses, form \in {"std", "urn", "bad"} :
         IF req[p].dg2 = "overflow"
         THEN Abort(p, "issueHash", loc[p]) /\ UNCHANGED creds
         ELSE LET id == IF IssuerMints(status) THEN NextCredID ELSE 0
                  body == IF status >= 200 /\ status <= 299
                          THEN [form |-> form, n |-> id]
                          ELSE EmptyID
                  l == [loc[p] EXCEPT
                          !.createStatus = status,
                          !.createReq = CredentialRequest(
                              IdentityExpiration(req[p]), req[p].user_id,
                              req[p].fingerprint),
                          !.txLog = Append(@, [op |-> "create", id |-> id,
                                               ok |-> IssueStatusOK(status)])]
              IN  /\ creds' = IF IssuerMints(status)
                              THEN creds \cup {[id |-> id,
                                                features |-> req[p].fingerprint,
                                                revoked |-> FALSE,
                                                resent |-> FALSE,
                                                by |-> loc[p].no]}
                              ELSE creds
                  /\ IF IssueStatusOK(status)
                     THEN /\ loc' = [loc EXCEPT ![p] = [l EXCEPT !.claimID = body]]
                          /\ pc' = [pc EXCEPT ![p] = "write"]
                          /\ UNCHANGED <<tx, out>>
                     ELSE Abort(p, "issueClaim", l)
    /\ UNCHANGED <<claims, req, nreq, lastIssued, calc>>

\* writeDataToDB: parse the returned id, insert the row.  The insert fails
\* on a database error and when the primary key is taken.
writeDataToDB(p) ==
    /\ pc[p] = "write"
    /\ \E dbOK \in BOOLEAN :
         LET claimID == ParseUUID(loc[p].claimID)
             taken == claimID \in {row.id : row \in View(tx[p])}
         IN  IF ~ParseUUIDOK(loc[p].claimID)
             THEN Abort(p, "parseUUID", loc[p])
             ELSE IF ~dbOK \/ taken
             THEN Abort(p, "insert", loc[p])
             ELSE /\ tx' = [tx EXCEPT ![p].ins = @ \cup
                        {[id |-> claimID, user_id |-> req[p].user_id,
                          document_hash |-> req[p].fingerprint,
                          by |-> loc[p].no]}]
                  /\ pc' = [pc EXCEPT ![p] = "commit"]
                  /\ UNCHANGED <<loc, out>>
    /\ UNCHANGED <<claims, creds, req, nreq, lastIssued, calc>>

\* A serializable transaction commits only if the set of rows it selected
\* by document_hash was not changed by a transaction that committed since.
CanCommit(p) ==
    {row \in claims : row.document_hash = req[p].fingerprint}
        = {row \in tx[p].snap : row.document_hash = req[p].fingerprint}

\* The closure returned nil.  Either the commit succeeds and the success
\* response is rendered, or Transaction returns the commit error: the handler
\* logs it and returns.
Commit(p) ==
    /\ pc[p] = "commit"
    /\ \E dbOK \in BOOLEAN :
         IF dbOK /\ CanCommit(p)
         THEN /\ claims' = {row \in claims : row.id \notin tx[p].del} \cup tx[p].ins
              /\ out' = [out EXCEPT ![p] =
                     [rendered |-> 1, status |-> StatusOKHttp, stage |-> "ok",
                      claim_id |-> loc[p].claimID, user_id |-> loc[p].userId]]
              /\ lastIssued' = [lastIssued EXCEPT ![req[p].fingerprint] =
                     ParseUUID(loc[p].claimID)]
         ELSE /\ out' = [out EXCEPT ![p] = [NoOut EXCEPT !.stage = "commit"]]
              /\ UNCHANGED <<claims, lastIssued>>
    /\ tx' = [tx EXCEPT ![p] = NoTx]
    /\ pc' = [pc EXCEPT ![p] = "done"]
    /\ UNCHANGED <<creds, req, loc, nreq, calc>>

\* The handler has returned; the process is free for the next request.
Return(p) ==
    /\ pc[p] = "done"
    /\ pc' = [pc EXCEPT ![p] = "idle"]
    /\ req' = [req EXCEPT ![p] = NoReq]
    /\ loc' = [loc EXCEPT ![p] = NoLoc]
    /\ out' = [out EXCEPT ![p] = NoOut]
    /\ UNCHANGED <<claims, creds, tx, nreq, lastIssued, calc>>

Transact(p) ==
    \/ Select(p)
    \/ RevokeOutdated(p)
    \/ IssueVotingClaim(p)
    \/ writeDataToDB(p)
    \/ Commit(p)
    \/ Return(p)

\* Requests handled one after the other.
Next ==
    \E p \in SeqProcs :
        \/ \E r \in CoreRequests : Start(p, r, MaxReqs)
        \/ Transact(p)

Spec == Init /\ [][Next]_vars

\* One handler, requests with up to two defects.
PipeNext ==
    \E p \in SeqProcs :
        \/ \E r \in PipeRequests : Start(p, r, MaxPipeReqs)
        \/ Transact(p)

SpecPipe == Init /\ [][PipeNext]_vars

\* Two handlers running concurrently.
ConcNext ==
    \E p \in Procs :
        \/ \E r \in ConcRequests : Start(p, r, MaxConcReqs)
        \/ Transact(p)

SpecConc == Init /\ [][ConcNext]_vars

(***************************************************************************)
(* signatureAlgorithm and the answer of CreateIdentity on algorithm        *)
(* strings made of up to MaxTokens tokens, evaluated on their own.         *)
(***************************************************************************)
AlgTokens ==
    {TokenChars.SHA1, TokenChars.SHA256, TokenChars.RSA, TokenChars.ECDSA,
     TokenChars.PSS,
     <<"s", "h", "a", "1">>, <<"s", "h", "a", "2", "5", "6">>,
     <<"r", "s", "a">>, <<"e", "c", "d", "s", "a">>,
     <<"p", "s", "s">>, <<"P", "s", "s">>, <<"-">>}

RECURSIVE Join(_)
Join(tokens) ==
    IF tokens = <<>> THEN <<>> ELSE Head(tokens) \o Join(Tail(tokens))

AlgStrings ==
    {Join(ts) : ts \in UNION {[1..n -> AlgTokens] : n \in 0..MaxTokens}}
    \cup {AlgSha256Rsa, AlgEcdsaSha1, AlgEcdsaSha256, AlgPss, AlgSha1Rsa, AlgBoth}

\* What else may be wrong with a request whose algorithm string is examined.
AlgFaults ==
    {<<"json", "ok">>, <<"saHex", "bad">>, <<"pem", "bad">>,
     <<"zkKey", "none">>, <<"chain", "bad">>}

InitAlg ==
    /\ Quiet
    /\ calc \in {[in |-> [algorithm |-> a, fault |-> d], done |-> FALSE,
                   out |-> [first |-> "", second |-> "", stage |-> "",
                            status |-> 0, rendered |-> 0]] :
                     a \in AlgStrings, d \in AlgFaults}

\* signatureAlgorithm evaluated twice on the same string, and CreateIdentity
\* up to the transaction on a request that carries the string and presents
\* a passport under the tag of the first evaluation.
Normalise ==
    /\ ~calc.done
    /\ \E first \in signatureAlgorithm(calc.in.algorithm),
          second \in signatureAlgorithm(calc.in.algorithm) :
         LET tag == IF first = NoAlgorithm THEN SHA256withRSA ELSE first
             r == With(Base(calc.in.algorithm, tag, "F1", "u1"), calc.in.fault)
             res == PreTx(r, first)
         IN  calc' = [calc EXCEPT
                        !.done = TRUE,
                        !.out = [first |-> first, second |-> second,
                                 stage |-> res.stage, status |-> res.status,
                                 rendered |-> res.rendered]]
    /\ UNCHANGED <<claims, creds, pc, req, loc, tx, out, nreq, lastIssued>>

AlgNext == Normalise

SpecAlg == InitAlg /\ [][AlgNext]_vars

(***************************************************************************)
(* validatePubSignalsCurrentDate, evaluated on its own: the server clock   *)
(* and public signals [3], [4], [5] are drawn from small sets.             *)
(***************************************************************************)
DigitVal ==
    ("0" :> 0) @@ ("1" :> 1) @@ ("2" :> 2) @@ ("3" :> 3) @@ ("4" :> 4) @@
    ("5" :> 5) @@ ("6" :> 6) @@ ("7" :> 7) @@ ("8" :> 8) @@ ("9" :> 9)

RECURSIVE DecimalValue(_)
DecimalValue(digits) ==
    IF digits = <<>> THEN 0
    ELSE 10 * DecimalValue(SubSeq(digits, 1, Len(digits) - 1))
         + DigitVal[digits[Len(digits)]]

\* strconv.Atoi: an optional sign, then at least one decimal digit.  The
\* strings examined are short, so the value is always in range.
Atoi(s) ==
    LET signed == s # <<>> /\ Head(s) \in {"+", "-"}
        digits == IF signed THEN Tail(s) ELSE s
    IN  IF digits = <<>> \/ \E i \in DOMAIN digits : digits[i] \notin DOMAIN DigitVal
        THEN [ok |-> FALSE, val |-> 0]
        ELSE [ok |-> TRUE,
              val |-> IF signed /\ Head(s) = "-"
                      THEN 0 - DecimalValue(digits) ELSE DecimalValue(digits)]

\* Faulty variant: the day of the month is not compared.
validatePubSignalsCurrentDateNoDay(pubSignals, currentTime) ==
    LET year == Atoi(pubSignals[3])
        month == Atoi(pubSignals[4])
        day == Atoi(pubSignals[5])
    IN  IF ~year.ok THEN "err"
        ELSE IF ~month.ok THEN "err"
        ELSE IF ~day.ok THEN "err"
        ELSE IF currentTime.Year # 2000 + year.val THEN "err"
        ELSE IF currentTime.Month # month.val THEN "err"
        ELSE "ok"

\* validatePubSignalsCurrentDate, with currentTime = time.Now().UTC().
validatePubSignalsCurrentDate(pubSignals, currentTime) ==
    LET year == Atoi(pubSignals[3])
        month == Atoi(pubSignals[4])
        day == Atoi(pubSignals[5])
    IN  IF ~year.ok THEN "err"
        ELSE IF ~month.ok THEN "err"
        ELSE IF ~day.ok THEN "err"
        ELSE IF currentTime.Year # 2000 + year.val THEN "err"
        ELSE IF currentTime.Month # month.val THEN "err"
        ELSE IF currentTime.Day # day.val THEN "err"
        ELSE "ok"

\* UTC dates the server clock may show.
Clocks ==
    {[Year |-> 2024, Month |-> 11, Day |-> 6],
     [Year |-> 2024, Month |-> 1, Day |-> 1],
     [Year |-> 2024, Month |-> 3, Day |-> 1],
     [Year |-> 2025, Month |-> 12, Day |-> 31],
     [Year |-> 1999, Month |-> 6, Day |-> 5]}

\* Strings a client may send as public signal [3], [4] or [5].
DateSignals ==
    {<<"2", "4">>, <<"2", "3">>, <<"2", "5">>, <<"0", "2", "4">>, <<"1">>,
     <<"0", "1">>, <<"3">>, <<"2">>, <<"1", "1">>, <<"1", "2">>, <<"6">>,
     <<"5">>, <<"0", "5">>, <<"3", "1">>, <<"2", "9">>, <<>>, <<"x", "6">>,
     <<"+", "6">>, <<"-", "1">>}

InitDate ==
    /\ Quiet
    /\ calc \in {[in |-> [pubSignals |-> ps, now |-> t], done |-> FALSE,
                   out |-> ""] :
                     ps \in [3..5 -> DateSignals], t \in Clocks}

CheckCurrentDate ==
    /\ ~calc.done
    /\ calc' = [calc EXCEPT
                  !.done = TRUE,
                  !.out = validatePubSignalsCurrentDate(calc.in.pubSignals,
                                                        calc.in.now)]
    /\ UNCHANGED <<claims, creds, pc, req, loc, tx, out, nreq, lastIssued>>

DateNext == CheckCurrentDate

SpecDate == InitDate /\ [][DateNext]_vars

(***************************************************************************)
(* The hash inputs IssueVotingClaim builds, evaluated on their own.  An    *)
(* octet string is a sequence of bytes; a big.Int is written as its        *)
(* minimal big-endian bytes, the empty sequence for zero.                  *)
(***************************************************************************)
\* new(big.Int).SetBytes(b): the leading zero bytes do not change the value.
RECURSIVE SetBytes(_)
SetBytes(b) ==
    IF b = <<>> THEN <<>>
    ELSE IF Head(b) = 0 THEN SetBytes(Tail(b))
    ELSE b

\* Faulty variant: an octet string of exactly 32 bytes is not split.
NullifierHashInputAbove32(dg2, blinder) ==
    IF Len(dg2) > 32
    THEN <<SetBytes(SubSeq(dg2, 1, Len(dg2) \div 2)),
           SetBytes(SubSeq(dg2, Len(dg2) \div 2 + 1, Len(dg2))), blinder>>
    ELSE <<SetBytes(dg2), blinder>>

\* nullifierHashInput of IssueVotingClaim.
NullifierHashInput(dg2, blinder) ==
    IF Len(dg2) >= 32
    THEN <<SetBytes(SubSeq(dg2, 1, Len(dg2) \div 2)),
           SetBytes(SubSeq(dg2, Len(dg2) \div 2 + 1, Len(dg2))), blinder>>
    ELSE <<SetBytes(dg2), blinder>>

\* poseidon.Hash refuses an element outside the field, whose modulus has 32
\* bytes, the first of them 0x30.  The bytes used here are never 0x30.
InField(n) == Len(n) < 32 \/ (Len(n) = 32 /\ n[1] < 48)

\* poseidon.Hash: the hash of the inputs, as a term; "err" on an error.
PoseidonHash(input) ==
    IF \A i \in DOMAIN input : InField(input[i])
    THEN [poseidon |-> input]
    ELSE [poseidon |-> <<"err">>]

\* credHashInput of IssueVotingClaim.
CredHashInput(issuingAuthority, nullifierHash) ==
    <<1, issuingAuthority, nullifierHash>>

\* The octet strings examined: every length up to MaxDg2Len, filled with
\* the position, with 0xff, or mostly with zero bytes.
Dg2Strings ==
    {[i \in 1..n |-> i] : n \in 0..MaxDg2Len}
    \cup {[i \in 1..n |-> 255] : n \in 0..MaxDg2Len}
    \cup {[i \in 1..n |-> IF i % 5 = 0 THEN i ELSE 0] : n \in 0..MaxDg2Len}

Blinders == {<<>>, <<7>>, <<1, 0>>}
IssuingAuthorities == {4, 840}

InitHash ==
    /\ Quiet
    /\ calc \in {[in |-> [dg2 |-> d, blinder |-> b, issuingAuthority |-> a],
                   done |-> FALSE,
                   out |-> [nullifierHashInput |-> <<>>, credHashInput |-> <<>>,
                            err |-> FALSE]] :
                     d \in Dg2Strings, b \in Blinders, a \in IssuingAuthorities}

\* IssueVotingClaim, lines 55-78: the two hash inputs, or the error of the
\* first hash.
BuildHashInputs ==
    /\ ~calc.done
    /\ LET input == NullifierHashInput(calc.in.dg2, calc.in.blinder)
           nullifierHash == PoseidonHash(input)
       IN  calc' = [calc EXCEPT
                      !.done = TRUE,
                      !.out = IF nullifierHash.poseidon = <<"err">>
                              THEN [nullifierHashInput |-> input,
                                    credHashInput |-> <<>>, err |-> TRUE]
                              ELSE [nullifierHashInput |-> input,
                                    credHashInput |->
                                        CredHashInput(calc.in.issuingAuthority,
                                                      nullifierHash),
                                    err |-> FALSE]]
    /\ UNCHANGED <<claims, creds, pc, req, loc, tx, out, nreq, lastIssued>>

HashNext == BuildHashInputs

SpecHash == InitHash /\ [][HashNext]_vars

(***************************************************************************)
(* validatePubSignalsDG1Hash, evaluated on its own.  The octet strings are *)
(* short, so a big.Int is an integer here.                                 *)
(***************************************************************************)
HexDigitVal ==
    DigitVal @@
    ("a" :> 10) @@ ("b" :> 11) @@ ("c" :> 12) @@ ("d" :> 13) @@ ("e" :> 14) @@
    ("f" :> 15) @@ ("A" :> 10) @@ ("B" :> 11) @@ ("C" :> 12) @@ ("D" :> 13) @@
    ("E" :> 14) @@ ("F" :> 15)

RECURSIVE DigitsValue(_, _)
DigitsValue(digits, base) ==
    IF digits = <<>> THEN 0
    ELSE base * DigitsValue(SubSeq(digits, 1, Len(digits) - 1), base)
         + HexDigitVal[digits[Len(digits)]]

\* new(big.Int).SetString(s, base) for base 10 or 16: an optional sign,
\* then at least one digit of the base, and nothing else.
SetString(s, base) ==
    LET signed == s # <<>> /\ Head(s) \in {"+", "-"}
        digits == IF signed THEN Tail(s) ELSE s
    IN  IF \/ digits = <<>>
           \/ \E i \in DOMAIN digits :
                 \/ digits[i] \notin DOMAIN HexDigitVal
                 \/ HexDigitVal[digits[i]] >= base
        THEN [ok |-> FALSE, val |-> 0]
        ELSE [ok |-> TRUE,
              val |-> IF signed /\ Head(s) = "-"
                      THEN 0 - DigitsValue(digits, base)
                      ELSE DigitsValue(digits, base)]

\* stringToBigInt: base 16 after the prefix 0x, base 10 otherwise.
stringToBigInt(s) ==
    IF Len(s) >= 2 /\ SubSeq(s, 1, 2) = <<"0", "x">>
    THEN SetString(SubSeq(s, 3, Len(s)), 16)
    ELSE SetString(s, 10)

\* big.Int.Bytes: the absolute value as big-endian bytes without leading
\* zero bytes; no byte at all for zero.
RECURSIVE Bytes(_)
Bytes(n) ==
    IF n = 0 THEN <<>>
    ELSE IF n < 0 THEN Bytes(0 - n)
    ELSE Append(Bytes(n \div 256), n % 256)

\* validatePubSignalsDG1Hash.
validatePubSignalsDG1Hash(dg1, pubSignals) ==
    LET int0 == stringToBigInt(pubSignals[0])
        int1 == stringToBigInt(pubSignals[1])
        hashBytes == Bytes(int0.val) \o Bytes(int1.val)
    IN  IF ~int0.ok \/ ~int1.ok THEN "err"
        ELSE IF dg1 # hashBytes THEN "err"
        ELSE "ok"

\* The octet strings examined as DG1.
Dg1Bytes == {0, 1, 255}
Dg1Strings == UNION {[1..n -> Dg1Bytes] : n \in 0..MaxDg1Len}

\* The integer an octet string is the big-endian representation of.
RECURSIVE BigEndian(_)
BigEndian(b) ==
    IF b = <<>> THEN 0
    ELSE 256 * BigEndian(SubSeq(b, 1, Len(b) - 1)) + b[Len(b)]

DigitChars ==
    <<"0", "1", "2", "3", "4", "5", "6", "7", "8", "9",
      "a", "b", "c", "d", "e", "f">>

\* The numeral of n in the base, as a prover writes a public signal.
RECURSIVE Numeral(_, _)
Numeral(n, base) ==
    IF n < base THEN <<DigitChars[n + 1]>>
    ELSE Numeral(n \div base, base) \o <<DigitChars[(n % base) + 1]>>

\* Public signals [0] and [1] a client may send: the two limbs of a split
\* of an octet string, in decimal or in hexadecimal, and pairs with a
\* signal that is negative or not a number.
LimbSignals ==
    UNION {{[i \in 0..1 |->
               LET limb == IF i = 0 THEN SubSeq(d, 1, k)
                           ELSE SubSeq(d, k + 1, Len(d))
               IN  IF form = "dec" THEN Numeral(BigEndian(limb), 10)
                   ELSE <<"0", "x">> \o Numeral(BigEndian(limb), 16)] :
              k \in 0..Len(d), form \in {"dec", "hex"}} : d \in Dg1Strings}
    \cup {[i \in 0..1 |-> IF i = 0 THEN a ELSE b] :
            a \in {<<"-", "1">>, <<>>, <<"x">>, <<"f", "f">>},
            b \in {<<"2", "5", "5">>, <<"1">>, <<"0">>}}

InitDg1 ==
    /\ Quiet
    /\ calc \in {[in |-> [dg1 |-> d, pubSignals |-> ps], done |-> FALSE,
                   out |-> ""] :
                     d \in Dg1Strings, ps \in LimbSignals}

CheckDG1Hash ==
    /\ ~calc.done
    /\ calc' = [calc EXCEPT
                  !.done = TRUE,
                  !.out = validatePubSignalsDG1Hash(calc.in.dg1,
                                                    calc.in.pubSignals)]
    /\ UNCHANGED <<claims, creds, pc, req, loc, tx, out, nreq, lastIssued>>

Dg1Next == CheckDG1Hash

SpecDg1 == InitDg1 /\ [][Dg1Next]_vars

(***************************************************************************)
(* Properties.                                                             *)
(***************************************************************************)
Done(p) == pc[p] = "done"
Succeeded(p) == Done(p) /\ out[p].rendered = 1 /\ out[p].status = StatusOKHttp

PreTxStages ==
    {"decode", "algorithm", "hexSignedAttributes", "hexEncapsulatedContent",
     "validateSignedAttributes", "parseCertificate", "verifySignature",
     "verifyGroth16", "unmarshalEncapsulated", "validatePubSignals",
     "validateCert", "expiration", "issuingAuthority", "vault",
     "fingerprintHash"}

\* What is wrong with request r, read off the request itself.
HasDefect(stage, r, algorithm) ==
    CASE stage = "decode" -> r.json # "ok"
      [] stage = "algorithm" -> algorithm = ""
      [] stage = "hexSignedAttributes" -> r.saHex # "ok"
      [] stage = "hexEncapsulatedContent" -> r.ecHex # "ok"
      [] stage = "validateSignedAttributes" ->
            r.saShape # "ok" \/ r.digestOf # Family(algorithm)
      [] stage = "parseCertificate" -> r.pem # "ok"
      [] stage = "verifySignature" ->
            \/ r.sigHex # "ok"
            \/ r.keyKind # KeyKindOf(algorithm)
            \/ r.sigScheme # algorithm
      [] stage = "verifyGroth16" -> r.zkKey # Family(algorithm)
      [] stage = "unmarshalEncapsulated" -> r.ecAsn1 # "ok"
      [] stage = "validatePubSignals" -> r.pubSignals # "ok"
      [] stage = "validateCert" -> r.chain # "ok"
      [] stage = "expiration" -> r.expiration # "ok"
      [] stage = "issuingAuthority" -> r.issuingAuthority # "ok"
      [] stage = "vault" -> r.vault # "ok"
      [] stage = "fingerprintHash" -> r.poseidon # "ok"

ActiveFor(f) == {c \in creds : c.features = f /\ ~c.revoked}

\* C1: at the end of every successful issuance transaction for fingerprint
\* F, at most one credential minted with features = F is not revoked.
C1_AtMostOneActive ==
    \A p \in SeqProcs :
        Succeeded(p) => Cardinality(ActiveFor(req[p].fingerprint)) <= 1

\* C2: two transactions for the same fingerprint never run their steps
\* interleaved (while one is between its select and its end, the other makes
\* no issuer call of its own transaction), and the table never holds two
\* rows for one fingerprint.
C2_Serialized ==
    /\ \A p, q \in Procs :
          (p # q /\ tx[p].active /\ tx[q].active
                 /\ req[p].fingerprint = req[q].fingerprint)
              => (loc[p].txLog = <<>> \/ loc[q].txLog = <<>>)
    /\ \A f \in Fingerprints : Cardinality(FilterByDocumentHash(claims, f)) <= 1

C4_RevokeBeforeCreate ==
    \A p \in SeqProcs :
        (Succeeded(p) /\ loc[p].prior # 0) =>
            /\ out[p].user_id = req[p].user_id
            /\ \E i, j \in DOMAIN loc[p].txLog :
                  /\ i < j
                  /\ loc[p].txLog[i] = [op |-> "revoke", id |-> loc[p].prior, ok |-> TRUE]
                  /\ loc[p].txLog[j].op = "create"

\* The request failed at a step of the issuance transaction, read off the
\* recorded calls and answers.
TxStepFailed(p) ==
    \/ out[p].stage \in {"select", "getCredential", "revokeClaim", "deleteByID",
                         "issueClaim", "parseUUID", "insert"}
    \/ \E i \in DOMAIN loc[p].txLog :
          loc[p].txLog[i].op \in {"get", "revoke"} /\ ~loc[p].txLog[i].ok
    \/ loc[p].createStatus = TransportError
    \/ loc[p].createStatus >= 299
    \/ loc[p].createStatus \in 200..298 /\ loc[p].claimID.form = "bad"

\* C5: a request that fails at a step of the transaction leaves the table
\* as it was before the request and is answered 500, once.
C5_RollbackOnFailure ==
    \A p \in SeqProcs :
        (Done(p) /\ TxStepFailed(p)) =>
            /\ claims = loc[p].before
            /\ out[p].status = InternalError
            /\ out[p].rendered = 1

C5_Witness ==
    \E p \in SeqProcs :
        /\ Done(p)
        /\ loc[p].createStatus = 500
        /\ \E i \in DOMAIN loc[p].txLog : loc[p].txLog[i].op = "revoke"
        /\ \E row \in claims : row.document_hash = req[p].fingerprint

\* C6: a request with a defect that a check before the transaction rejects
\* ends without a row inserted or deleted, without a transaction and without
\* an issuer RPC.
C6_NoEffectBeforeTx ==
    \A p \in SeqProcs :
        (pc[p] # "idle" /\ \E st \in PreTxStages : HasDefect(st, req[p], loc[p].algorithm))
            => /\ Done(p)
               /\ claims = loc[p].before
               /\ loc[p].txLog = <<>>
               /\ ~tx[p].active
               /\ out[p].status # StatusOKHttp

C6_Witness ==
    \E p \in SeqProcs :
        /\ Done(p)
        /\ req[p].chain # "ok"
        /\ out[p].stage = "validateCert"
        /\ claims # {}

\* C7: every row, committed or inserted in an open transaction, carries an
\* id of a credential the issuer minted and acknowledged with a status below
\* 299 in the request that inserted the row.
C7_RowsAcknowledged ==
    \A row \in claims \cup UNION {tx[p].ins : p \in Procs} :
        \E c \in creds : c.id = row.id /\ c.by = row.by

C7_Witness ==
    \E p \in SeqProcs :
        /\ Succeeded(p)
        /\ loc[p].createStatus = 298
        /\ \E row \in claims : row.by = loc[p].no

\* The kinds of failure of the error taxonomy, for the failures it names.
KindOf(stage) ==
    IF stage \in {"algorithm", "hexSignedAttributes", "hexEncapsulatedContent",
                  "parseCertificate", "unmarshalEncapsulated"}
    THEN "InputMalformed"
    ELSE IF stage \in {"validateSignedAttributes", "verifySignature",
                       "verifyGroth16", "validatePubSignals", "validateCert"}
    THEN "CryptoFailed"
    ELSE IF stage \in {"vault", "fingerprintHash", "select", "getCredential",
                       "revokeClaim", "deleteByID", "issueHash", "issueClaim",
                       "insert"}
    THEN "SystemFailed"
    ELSE "unclassified"

\* C8: a failure of kind CryptoFailed or InputMalformed is answered 400, a
\* failure of kind SystemFailed is answered 500.
C8_StatusByKind ==
    \A p \in SeqProcs :
        (Done(p) /\ out[p].rendered = 1) =>
            /\ KindOf(out[p].stage) \in {"InputMalformed", "CryptoFailed"}
                  => out[p].status = BadRequest
            /\ KindOf(out[p].stage) = "SystemFailed"
                  => out[p].status = InternalError

\* The component of the system overview a check belongs to.
SpecStage(stage) ==
    CASE stage \in {"decode", "algorithm"} -> 0
      [] stage \in {"hexSignedAttributes", "hexEncapsulatedContent",
                    "validateSignedAttributes", "unmarshalEncapsulated"} -> 1
      [] stage = "verifySignature" -> 2
      [] stage \in {"parseCertificate", "validateCert"} -> 3
      [] stage \in {"verifyGroth16", "validatePubSignals", "expiration",
                    "issuingAuthority"} -> 4
      [] stage \in {"vault", "fingerprintHash"} -> 5

\* C9 as stated: a request is rejected by a check only if every check of
\* the earlier components C1..C5 passes on it.
C9_SpecOrder ==
    \A p \in SeqProcs :
        (Done(p) /\ out[p].stage \in PreTxStages) =>
            \A st \in PreTxStages :
                SpecStage(st) < SpecStage(out[p].stage)
                    => ~HasDefect(st, req[p], loc[p].algorithm)

C9Order ==
    <<"decode", "algorithm", "hexSignedAttributes", "hexEncapsulatedContent",
      "validateSignedAttributes", "parseCertificate", "verifySignature",
      "verifyGroth16", "unmarshalEncapsulated", "validatePubSignals",
      "validateCert", "expiration", "issuingAuthority", "vault",
      "fingerprintHash">>

\* C9 amended: the checks run in the order algorithm, hex decoding, digest
\* binding, certificate parsing, signature, Groth16 proof, encapsulated
\* content, public signals, certificate chain, expiration, issuing
\* authority, vault, fingerprint hash: a request is rejected by the first
\* check of this order that it fails, and reaches the transaction only if it
\* fails none.
C9_CodeOrder ==
    \A p \in SeqProcs :
        pc[p] # "idle" =>
            LET bad == {i \in DOMAIN C9Order :
                          HasDefect(C9Order[i], req[p], loc[p].algorithm)}
            IN  IF bad = {}
                THEN out[p].stage \notin PreTxStages
                ELSE /\ Done(p)
                     /\ \E i \in bad :
                           /\ out[p].stage = C9Order[i]
                           /\ \A j \in bad : i <= j

C9_Witness ==
    \E p \in SeqProcs :
        /\ Done(p)
        /\ req[p].chain # "ok"
        /\ req[p].zkKey = "none"
        /\ out[p].stage = "verifyGroth16"

\* C10: a request whose certificate key is not of the kind the algorithm
\* declares ends with exactly one error response rendered, at a check no
\* later than the signature verification.
C10_KeyMismatchRejected ==
    \A p \in SeqProcs :
        (Done(p) /\ loc[p].algorithm # NoAlgorithm
                 /\ req[p].keyKind # KeyKindOf(loc[p].algorithm)) =>
            /\ out[p].rendered = 1
            /\ out[p].status \in {BadRequest, InternalError}
            /\ out[p].stage \in {"decode", "hexSignedAttributes",
                                 "hexEncapsulatedContent",
                                 "validateSignedAttributes", "parseCertificate",
                                 "verifySignature"}
            /\ loc[p].txLog = <<>>

\* C11: every create-claim RPC carries a CredentialRequest whose expiration
\* is the expiration decoded from public signals [6..8]; it is never absent.
C11_ExpirationSent ==
    \A p \in SeqProcs :
        loc[p].createStatus # -1 =>
            /\ loc[p].createReq.Expiration # Nil
            /\ loc[p].createReq.Expiration = IdentityExpiration(req[p])

\* C12: the success response carries user_id only when a prior claim was
\* revoked during this call: when the request's transaction sent no revoke
\* RPC, user_id is absent.
C12_UserIdOnlyWhenRevoked ==
    \A p \in SeqProcs :
        (Succeeded(p) /\ \A i \in DOMAIN loc[p].txLog : loc[p].txLog[i].op # "revoke")
            => out[p].user_id = ""

\* C13: for each prior row a transaction processes, the revoke RPC is sent
\* if and only if GetCredential reported revoked = false, and the row is
\* deleted in both cases; no credential is sent a revoke RPC again after a
\* revoke RPC for it has succeeded.
C13_RevokeOnlyIfActive ==
    /\ \A p \in SeqProcs : \A g \in loc[p].reported :
          /\ (\E i \in DOMAIN loc[p].txLog :
                 loc[p].txLog[i].op = "revoke" /\ loc[p].txLog[i].id = g.id)
                <=> ~g.revoked
          /\ tx[p].active => g.id \in tx[p].del
    /\ \A c \in creds : ~c.resent

C13_Witness ==
    \E p \in SeqProcs :
        /\ tx[p].active
        /\ \E g \in loc[p].reported : g.revoked /\ g.id \in tx[p].del
        /\ \A i \in DOMAIN loc[p].txLog : loc[p].txLog[i].op # "revoke"

\* The spellings of PSS in every letter case.
PssSpellings ==
    {<<a, b, c>> : a \in {"p", "P"}, b \in {"s", "S"}, c \in {"s", "S"}}

HasPss(a) == \E t \in PssSpellings : Contains(a, t)

\* C14: for a request whose algorithm string contains PSS in any letter
\* case, whatever else it contains, signatureAlgorithm returns no tag and
\* CreateIdentity answers 400 at the algorithm check, before any other check.
C14_PssRejected ==
    (calc.done /\ HasPss(calc.in.algorithm)) =>
        /\ calc.out.first = NoAlgorithm
        /\ calc.out.second = NoAlgorithm
        /\ calc.out.stage = "algorithm"
        /\ calc.out.status = BadRequest
        /\ calc.out.rendered = 1

C14_Witness ==
    /\ calc.done
    /\ Contains(calc.in.algorithm, <<"p", "s", "s">>)
    /\ Contains(calc.in.algorithm, TokenChars.SHA256)
    /\ Contains(calc.in.algorithm, TokenChars.RSA)
    /\ calc.in.fault = <<"chain", "bad">>
    /\ calc.out.stage = "algorithm"

\* The decimal numeral s denotes the integer n.
Denotes(s, n) == Atoi(s).ok /\ Atoi(s).val = n

\* C15: with the server clock at UTC date D, validatePubSignalsCurrentDate
\* accepts exactly the public signals whose [3], [4], [5] encode D as
\* (year - 2000, month, day), and rejects when any one differs.
C15_ExactlyToday ==
    calc.done =>
        (calc.out = "ok" <=>
            /\ Denotes(calc.in.pubSignals[3], calc.in.now.Year - 2000)
            /\ Denotes(calc.in.pubSignals[4], calc.in.now.Month)
            /\ Denotes(calc.in.pubSignals[5], calc.in.now.Day))

\* The signals encode the day before the clock's date and are rejected.
C15_Witness ==
    /\ calc.done
    /\ calc.in.now = [Year |-> 2024, Month |-> 11, Day |-> 6]
    /\ calc.in.pubSignals[3] = <<"2", "4">>
    /\ calc.in.pubSignals[4] = <<"1", "1">>
    /\ calc.in.pubSignals[5] = <<"5">>
    /\ calc.out = "err"

\* The closed table of supported algorithms: hash token, signature token,
\* normalised tag.
ClosedTable ==
    {[hash |-> <<"S", "H", "A", "1">>, sig |-> <<"E", "C", "D", "S", "A">>,
      tag |-> "SHA1withECDSA"],
     [hash |-> <<"S", "H", "A", "2", "5", "6">>, sig |-> <<"R", "S", "A">>,
      tag |-> "SHA256withRSA"],
     [hash |-> <<"S", "H", "A", "2", "5", "6">>, sig |-> <<"E", "C", "D", "S", "A">>,
      tag |-> "SHA256withECDSA"]}

MatchingRows(a) ==
    {row \in ClosedTable :
        Contains(ToUpper(a), row.hash) /\ Contains(ToUpper(a), row.sig)}

\* C16: for an algorithm string without PSS, signatureAlgorithm returns the
\* tag of a row of the closed table whose hash token and signature token
\* both occur in the upper-cased string, and the empty tag, answered 400,
\* when no row matches; "sha256WithRSAEncryption" yields SHA256withRSA and
\* "ecdsa-with-SHA1" yields SHA1withECDSA.
C16_TableRow ==
    (calc.done /\ ~HasPss(calc.in.algorithm)) =>
        /\ \A t \in {calc.out.first, calc.out.second} :
              IF MatchingRows(calc.in.algorithm) = {}
              THEN t = ""
              ELSE t \in {row.tag : row \in MatchingRows(calc.in.algorithm)}
        /\ MatchingRows(calc.in.algorithm) = {} =>
              calc.out.stage = "algorithm" /\ calc.out.status = BadRequest
        /\ calc.in.algorithm = AlgSha256Rsa => calc.out.first = "SHA256withRSA"
        /\ calc.in.algorithm = AlgEcdsaSha1 => calc.out.first = "SHA1withECDSA"

\* SHA1 with RSA matches no row.
C16_Witness ==
    /\ calc.done
    /\ calc.in.algorithm = AlgSha1Rsa
    /\ calc.out.first = ""
    /\ calc.out.stage = "algorithm"

\* The hash family of a normalised tag.
HashOfTag(tag) ==
    CASE tag = "SHA1withECDSA" -> "sha1"
      [] tag \in {"SHA256withRSA", "SHA256withECDSA"} -> "sha256"
      [] OTHER -> "none"

BeforeZkGate ==
    {"decode", "algorithm", "hexSignedAttributes", "hexEncapsulatedContent",
     "validateSignedAttributes", "parseCertificate", "verifySignature"}

\* C17: for a request that reaches the Groth16 verification, the
\* verification key is the SHA1 key exactly when the tag is SHA1withECDSA
\* and the SHA256 key exactly when it is SHA256withRSA or SHA256withECDSA;
\* it is the family under which the digest check and the signature check
\* of the request passed; and a request that passes the verification
\* passed all three under one family.
C17_OneHashFamily ==
    \A p \in SeqProcs :
        (pc[p] # "idle" /\ out[p].stage \notin BeforeZkGate) =>
            LET key == VerificationKeyFor(loc[p].algorithm)
            IN  /\ key = HashOfTag(loc[p].algorithm)
                /\ key \in {"sha1", "sha256"}
                /\ req[p].digestOf = key
                /\ HashOfTag(req[p].sigScheme) = key
                /\ out[p].stage # "verifyGroth16" => req[p].zkKey = key

\* A presentation whose digest and signature are under SHA-1 and whose
\* proof is for the SHA-256 circuit is rejected at the Groth16 verification.
C17_Witness ==
    \E p \in SeqProcs :
        /\ Done(p)
        /\ loc[p].algorithm = SHA1withECDSA
        /\ req[p].zkKey = SHA256
        /\ out[p].stage = "verifyGroth16"
        /\ out[p].status = BadRequest

\* C18: every execution of CreateIdentity that reaches the transaction
\* renders exactly one response: the success response when it succeeds, one
\* error response when it fails, also when Transaction fails without the
\* closure having returned an error.
C18_OneResponse ==
    \A p \in SeqProcs :
        (Done(p) /\ out[p].stage \notin PreTxStages) =>
            /\ out[p].rendered = 1
            /\ out[p].status \in {StatusOKHttp, InternalError}

\* C19: a request that fails has not revoked a credential, and the table
\* never keeps a row whose credential is revoked at the issuer.
C19_FailureKeepsActive ==
    /\ \A p \in SeqProcs :
          (Done(p) /\ ~Succeeded(p)) =>
              \A i \in DOMAIN loc[p].txLog :
                  ~(loc[p].txLog[i].op = "revoke" /\ loc[p].txLog[i].ok)
    /\ \A p \in SeqProcs :
          pc[p] \in {"idle", "done"} =>
              \A row \in claims : \A c \in creds : c.id = row.id => ~c.revoked

\* C20: two evaluations of signatureAlgorithm on the same string return the
\* same tag, whatever the iteration order of algorithmsListMap and of its
\* inner maps.
C20_Deterministic ==
    calc.done => calc.out.first = calc.out.second

\* The big-endian bytes b denote the integer written n.
SameInteger(b, n) ==
    /\ n = <<>> \/ n[1] # 0
    /\ \E k \in 0..Len(b) :
          /\ \A i \in 1..k : b[i] = 0
          /\ SubSeq(b, k + 1, Len(b)) = n

\* C21: the Poseidon input of the document nullifier is [first half, second
\* half, blinder], split at floor(len / 2), when DG2 has at least 32 bytes,
\* and [DG2, blinder] when it has fewer; the two halves concatenated are
\* DG2; the credential hash input is [1, issuing_authority, nullifier].
C21_NullifierInput ==
    calc.done =>
        LET dg2 == calc.in.dg2
            input == calc.out.nullifierHashInput
            half == Len(dg2) \div 2
        IN  /\ IF Len(dg2) >= 32
               THEN /\ Len(input) = 3
                    /\ \E k \in 0..Len(dg2) :
                          LET first == SubSeq(dg2, 1, k)
                              second == SubSeq(dg2, k + 1, Len(dg2))
                          IN  /\ k = half
                              /\ first \o second = dg2
                              /\ SameInteger(first, input[1])
                              /\ SameInteger(second, input[2])
                    /\ input[3] = calc.in.blinder
               ELSE /\ Len(input) = 2
                    /\ SameInteger(dg2, input[1])
                    /\ input[2] = calc.in.blinder
            /\ ~calc.out.err =>
                  /\ Len(calc.out.credHashInput) = 3
                  /\ calc.out.credHashInput[1] = 1
                  /\ calc.out.credHashInput[2] = calc.in.issuingAuthority
                  /\ calc.out.credHashInput[3] = [poseidon |-> input]

\* An octet string of exactly 32 bytes is split.
C21_Witness ==
    /\ calc.done
    /\ Len(calc.in.dg2) = 32
    /\ Len(calc.out.nullifierHashInput) = 3
    /\ Len(calc.out.nullifierHashInput[1]) = 16
    /\ ~calc.out.err

\* The public signal s is the number whose big-endian bytes are limb.
EncodesLimb(s, limb) ==
    stringToBigInt(s).ok /\ stringToBigInt(s).val = BigEndian(limb)

\* C22: validatePubSignalsDG1Hash accepts public signals [0] and [1]
\* exactly when they are the two limbs of a split of DG1, also when a limb
\* starts with zero bytes.
C22_LimbsOfDG1 ==
    calc.done =>
        (calc.out = "ok" <=>
            \E k \in 0..Len(calc.in.dg1) :
                /\ EncodesLimb(calc.in.pubSignals[0], SubSeq(calc.in.dg1, 1, k))
                /\ EncodesLimb(calc.in.pubSignals[1],
                               SubSeq(calc.in.dg1, k + 1, Len(calc.in.dg1))))

====
